---- MODULE Spec2Model ----
(***************************************************************************)
(* The multi-agent orchestration pipeline of src/index.tsx (component App: *)
(* handleSubmit, runOrchestration, checkCodeSyntax and the handlers of the *)
(* input area), as a state machine.                                        *)
(*                                                                         *)
(* A text is a sequence of string tokens: '' is << >>, a template literal  *)
(* is the concatenation of its literal pieces and of the interpolated      *)
(* texts, a fenced code block is the tokens Fence, tag, body..., Fence.     *)
(* Arrays are sequences; unit indices stay 0-based as in the source, and   *)
(* At(arr, i) reads slot i.                                                *)
(***************************************************************************)
EXTENDS Integers, Sequences, FiniteSets, TLC

\* ------------------------------------------------------------------ bounds

\* Number of submissions (calls of runOrchestration) in one behaviour.
MaxRuns == 1

\* Number of completion calls of one behaviour that return the empty text.
MaxEmpty == 1

\* The number of submissions in the specification of consecutive runs.
MaxRunsInSequence == 2

\* ------------------------------------------------------- program constants

AgentsStandard == 4
AgentsDeep == 6
SizeLimit == 4 * 1024 * 1024

\* ------------------------------------------------------------------- texts

EmptyText == << >>

\* The token of a code fence (three backquotes).
Fence == "~~~"

RECURSIVE Concat(_)
\* Array.prototype.join without separator text: the texts of a sequence in order.
Concat(ts) == IF ts = << >> THEN << >> ELSE Head(ts) \o Concat(Tail(ts))

\* String.prototype.trim: leading and trailing blank tokens are dropped.
RECURSIVE TrimLeft(_)
TrimLeft(t) == IF t # << >> /\ Head(t) = " " THEN TrimLeft(Tail(t)) ELSE t

RECURSIVE TrimRight(_)
TrimRight(t) ==
    IF t # << >> /\ t[Len(t)] = " " THEN TrimRight(SubSeq(t, 1, Len(t) - 1)) ELSE t

Trim(t) == TrimRight(TrimLeft(t))

\* Array(n).fill(v)
Fill(n, v) == [k \in 1..n |-> v]

\* arr[i] of a 0-based array
At(arr, i) == arr[i + 1]

\* Variant: the slot is addressed 1-based, so unit 0 writes nothing.
SetAtOneBased(arr, i, v) == [k \in 1..Len(arr) |-> IF k = i THEN v ELSE arr[k]]

\* arr[i] = v of a 0-based array
SetAt(arr, i, v) == [arr EXCEPT ![i + 1] = v]

\* The 0-based indices of an array of length n
Units(n) == 0..(n - 1)

\* --------------------------------------------------------------- constants

MODEL_NAME == <<"gemini-2.5-pro">>
INITIAL_SYSTEM_INSTRUCTION == <<"INITIAL_SYSTEM_INSTRUCTION">>
REFINEMENT_SYSTEM_INSTRUCTION == <<"REFINEMENT_SYSTEM_INSTRUCTION">>
CRITIQUE_AGENT_SYSTEM_INSTRUCTION == <<"CRITIQUE_AGENT_SYSTEM_INSTRUCTION">>
REVISION_AGENT_SYSTEM_INSTRUCTION == <<"REVISION_AGENT_SYSTEM_INSTRUCTION">>
SYNTHESIZER_SYSTEM_INSTRUCTION == <<"SYNTHESIZER_SYSTEM_INSTRUCTION">>
FINAL_REVIEW_SYSTEM_INSTRUCTION == <<"FINAL_REVIEW_SYSTEM_INSTRUCTION">>

ApologyText == <<"Sorry, I encountered an error. Please try again.">>

\* A Part: {text} or {inlineData}; val is the text, or <<mimeType, data>>.
TextPart(t) == [kind |-> "text", val |-> t]
InlinePart(f) == [kind |-> "inlineData", val |-> <<f.mimeType, f.data>>]
\* What the spread `...p.text && {text: p.text}` leaves of a part whose text is ''.
BarePart == [kind |-> "none", val |-> << >>]

InternalContext(ctx) == TextPart(<<"---INTERNAL CONTEXT---">> \o ctx)

NoFile == [present |-> FALSE, mimeType |-> "", data |-> "", name |-> ""]
PickedFile == [present |-> TRUE, mimeType |-> "image/png", data |-> "b64", name |-> "a.png"]

\* --------------------------------------------------------- context builder

\* Variant: the filter drops the last answer whatever the index of the unit.
OtherAnswersButLast(answers, index) ==
    [k \in 1..(Len(answers) - 1) |-> answers[k]]

\* initialAnswers.filter((_, i) => i !== index)
OtherAnswers(answers, index) ==
    [k \in 1..(Len(answers) - 1) |-> IF k - 1 < index THEN answers[k] ELSE answers[k + 1]]

\* answers.map((ans, i) => `${i + 1}. "${ans}"`).join('\n')
NumberedList(answers) ==
    Concat([k \in 1..Len(answers) |-> <<ToString(k), ".">> \o answers[k]])

\* answers.map((ans, i) => `Refined ${i+1}:\n"${ans}"`).join('\n\n')
RefinedList(answers) ==
    Concat([k \in 1..Len(answers) |-> <<"Refined", ToString(k), ":">> \o answers[k]])

RefinementContext(currentAnswer, otherAnswers) ==
    <<"The response I'm working with is:">> \o currentAnswer
        \o <<"The other agents responded with:">> \o NumberedList(otherAnswers)
        \o <<"Based on this context, critically re-evaluate">>

\* Variant: the unit critiques its own answer.
CritiquePeerSelf(index, numAgents) == index % numAgents

\* The peer whose answer unit `index` critiques.
CritiquePeer(index, numAgents) == (index + 1) % numAgents

\* Variant: the revision ring runs the same way as the critique ring.
RevisionPeerForward(index, numAgents) == (index + 1) % numAgents

\* The peer whose critique unit `index` revises with.
RevisionPeer(index, numAgents) == (index - 1 + numAgents) % numAgents

CritiqueContext(userInput, peerAnswer) ==
    <<"The user's query was:">> \o userInput
        \o <<"Here is the response to critique:", "---RESPONSE---">> \o peerAnswer

RevisionContext(originalAnswer, peerCritique) ==
    <<"Here was your original response:", "---ORIGINAL---">> \o originalAnswer
        \o <<"Here is a critique from a peer:", "---CRITIQUE---">> \o peerCritique
        \o <<"Based on the critique, provide an improved response">>

\* Variant: every slice starts at the first answer, so the groups overlap.
SliceFromStart(arr, from, to) ==
    SubSeq(arr, 1, IF to < Len(arr) THEN to ELSE Len(arr))

\* answersForSynthesis.slice(0, 3) and .slice(3, 6)
Slice(arr, from, to) ==
    SubSeq(arr, from + 1, IF to < Len(arr) THEN to ELSE Len(arr))

GroupSynthesisContext(answers) ==
    <<"Here are 3 refined responses. Synthesize them">> \o RefinedList(answers)

FinalSynthesizerContext(first, second) ==
    <<"Here are two synthesized responses from different agent groups.">>
        \o <<"---SYNTHESIZED RESPONSE 1---">> \o first
        \o <<"---SYNTHESIZED RESPONSE 2---">> \o second

ReviewContext(userInput, synthesizedText) ==
    <<"Perform a final quality review on the following response.">>
        \o <<"The user's original query was:">> \o userInput
        \o <<"---RESPONSE TO REVIEW---">> \o synthesizedText

SynthesizerContext(numAgents, answers) ==
    <<"Here are the", ToString(numAgents), "refined responses.">> \o RefinedList(answers)

VerifierInstruction(syntaxError) ==
    <<"You are a code correction AI.", "ERROR MESSAGE:">> \o syntaxError

VerifierContext(lang, code) ==
    <<"Correct the following code:", Fence, lang>> \o code \o <<Fence>>

\* ---------------------------------------------------------- progress state

\* The object runOrchestration passes to setProgress at its start.
FreshProgress(numAgents, deep) ==
    [initial |-> Fill(numAgents, FALSE),
     refining |-> Fill(numAgents, FALSE),
     critiquing |-> IF deep THEN Fill(numAgents, FALSE) ELSE << >>,
     revising |-> IF deep THEN Fill(numAgents, FALSE) ELSE << >>,
     synthesizing |-> IF deep THEN <<FALSE, FALSE>> ELSE <<FALSE>>,
     finalSynthesizing |-> FALSE,
     reviewing |-> FALSE,
     verifying |-> FALSE]

\* useState's initial progress
InitialProgress ==
    [initial |-> << >>, refining |-> << >>, critiquing |-> << >>, revising |-> << >>,
     synthesizing |-> << >>, finalSynthesizing |-> FALSE, reviewing |-> FALSE,
     verifying |-> FALSE]

\* Variant: setProgress({ ...progress, [key]: ... }) on the state captured when
\* the stage was dispatched (none of its units done): the last write wins.
MarkUnitLastWriteWins(p, key, i) ==
    [p EXCEPT ![key] = [k \in 1..Len(p[key]) |-> k - 1 = i]]

\* setProgress(p => ({ ...p, [key]: p[key].map((s, idx) => idx === i ? true : s) }))
MarkUnit(p, key, i) ==
    [p EXCEPT ![key] = [k \in 1..Len(p[key]) |-> IF k - 1 = i THEN TRUE ELSE p[key][k]]]

\* Variant: the update of a single-unit stage is lost.
MarkFlagDropped(p, key) == p

\* setProgress(p => ({ ...p, [key]: true })) of a single-unit stage
MarkFlag(p, key) == [p EXCEPT ![key] = TRUE]

\* Variant: setProgress({ ...initialState, synthesizing: [true] }), without
\* the spread of the previous state.
MarkSynthesizedOnly(p) ==
    [initial |-> [k \in 1..Len(p.initial) |-> FALSE],
     refining |-> [k \in 1..Len(p.refining) |-> FALSE],
     critiquing |-> p.critiquing, revising |-> p.revising,
     synthesizing |-> <<TRUE>>, finalSynthesizing |-> FALSE,
     reviewing |-> FALSE, verifying |-> FALSE]

\* setProgress(p => ({ ...p, synthesizing: [true] }))
MarkSynthesized(p) == [p EXCEPT !.synthesizing = <<TRUE>>]

\* The fan-out stages: progress key of the stage |-> array of the run it fills.
FanOutStages == {"initial", "refining", "critiquing", "revising", "synthesizing"}

\* -------------------------------------------------------- syntax validator

\* String.prototype.toLowerCase on the language tags of the model.
ToLowerCase(tag) ==
    CASE tag = "JS" -> "js"
      [] tag = "Python" -> "python"
      [] OTHER -> tag

\* Whether the parser accepts the snippet / whether running it raises nothing.
Parses(code) == \A k \in 1..Len(code) : code[k] # "bad"
RunsClean(code) == \A k \in 1..Len(code) : code[k] \notin {"bad", "raises"}

NoDiagnostic == [isNull |-> TRUE, message |-> << >>]
Diagnostic(msg) == [isNull |-> FALSE, message |-> msg]

\* Variant: no switch on the language, every block is parsed as JavaScript.
checkCodeSyntaxAnyLanguage(language, code, sk) ==
    IF Parses(code) THEN NoDiagnostic ELSE Diagnostic(<<"SyntaxError">>)

\* checkCodeSyntax(language, code); sk: whether window.Sk is defined.
checkCodeSyntax(language, code, sk) ==
    LET lower == ToLowerCase(language) IN
    CASE lower \in {"javascript", "js"} ->
            IF Parses(code) THEN NoDiagnostic ELSE Diagnostic(<<"SyntaxError">>)
      [] lower \in {"python", "py"} ->
            IF ~sk THEN Diagnostic(<<"Skulpt (Python interpreter) not loaded.">>)
            ELSE IF RunsClean(code) THEN NoDiagnostic
            ELSE Diagnostic(<<"Error: in <stdin>">>)
      [] OTHER -> NoDiagnostic

\* `if (syntaxError)`: null and '' are falsy.
Truthy(d) == ~d.isNull /\ d.message # << >>

\* Variant: the allow-list without the short tags.
runnableLanguagesLongNames == {"python", "javascript", "html", "java", "c++", "cpp", "c"}

\* CodeBlock's runnableLanguages
runnableLanguages == {"python", "py", "javascript", "js", "html", "java", "c++", "cpp", "c"}

\* The tags \w+ matches (a tag such as c++ is no match).
WordTags == {"python", "py", "Python", "javascript", "js", "JS", "html", "java", "cpp", "c", "rust"}

NoMatch == [found |-> FALSE, index |-> 0, last |-> 0, lang |-> "", code |-> << >>, whole |-> << >>]

\* Whether /```(\w+)\n([\s\S]*?)```/ matches at token p, and its lazy end.
OpensAt(text, p) ==
    /\ p + 1 <= Len(text)
    /\ text[p] = Fence
    /\ text[p + 1] \in WordTags
    /\ \E q \in (p + 2)..Len(text) : text[q] = Fence

\* Variant: a greedy body, /```(\w+)\n([\s\S]*)```/: the block ends at the last
\* fence of the text.
ClosingOfGreedy(text, p) ==
    CHOOSE q \in (p + 2)..Len(text) :
        /\ text[q] = Fence
        /\ \A q2 \in (q + 1)..Len(text) : text[q2] # Fence

ClosingOf(text, p) ==
    CHOOSE q \in (p + 2)..Len(text) :
        /\ text[q] = Fence
        /\ \A q2 \in (p + 2)..(q - 1) : text[q2] # Fence

\* Variant: the regex without the g flag: exec always searches from the start.
RegexExecNotGlobal(text, lastIndex) ==
    LET starts == {p \in 1..Len(text) : OpensAt(text, p)} IN
    IF starts = {} THEN NoMatch
    ELSE LET p == CHOOSE x \in starts : \A y \in starts : x <= y
             q == ClosingOf(text, p)
         IN [found |-> TRUE, index |-> p, last |-> q + 1, lang |-> text[p + 1],
             code |-> SubSeq(text, p + 2, q - 1), whole |-> SubSeq(text, p, q)]

\* codeBlockRegex.exec(text) with the regex's lastIndex at token `lastIndex`.
RegexExec(text, lastIndex) ==
    LET starts == {p \in lastIndex..Len(text) : OpensAt(text, p)} IN
    IF starts = {} THEN NoMatch
    ELSE LET p == CHOOSE x \in starts : \A y \in starts : x <= y
             q == ClosingOf(text, p)
         IN [found |-> TRUE, index |-> p, last |-> q + 1, lang |-> text[p + 1],
             code |-> SubSeq(text, p + 2, q - 1), whole |-> SubSeq(text, p, q)]

\* The replacement text of String.prototype.replace: $& is the matched text.
RECURSIVE ExpandReplacement(_, _)
ExpandReplacement(replacement, matched) ==
    IF replacement = << >> THEN << >>
    ELSE (IF Head(replacement) = "$&" THEN matched ELSE <<Head(replacement)>>)
            \o ExpandReplacement(Tail(replacement), matched)

\* text.replace(pattern, replacement) with a string pattern: the first occurrence.
StringReplace(text, pattern, replacement) ==
    LET hits == {k \in 1..(Len(text) - Len(pattern) + 1) :
                    SubSeq(text, k, k + Len(pattern) - 1) = pattern}
    IN IF hits = {} THEN text
       ELSE LET k == CHOOSE x \in hits : \A y \in hits : x <= y
            IN SubSeq(text, 1, k - 1) \o ExpandReplacement(replacement, pattern)
                   \o SubSeq(text, k + Len(pattern), Len(text))

\* -------------------------------------------------------------------- state

VARIABLES
    messages,       \* useState<Message[]>: the conversation
    isLoading,      \* useState<boolean>
    loadingStatus,  \* useState<string>
    progress,       \* useState<ProgressState>
    inputText,      \* useState(''): the text of the input field
    attachedFile,   \* useState: the pending attachment, or NoFile for null
    isDeepThink,    \* useState<boolean>: the mode toggle
    run,            \* the locals of the latest call of runOrchestration
    inflight,       \* the generateContent promises that have not settled
    calls,          \* history: the completion requests the latest run issued
    runCount,       \* history: number of calls of runOrchestration
    emptyBudget,    \* environment: how many more completions may return ''
    runBudget,      \* environment: how many more submissions the user makes
    lastPick,       \* history: the size of the file the file input last delivered
    isListening     \* useState(false): speech recognition is running

vars == <<messages, isLoading, loadingStatus, progress, inputText, attachedFile,
          isDeepThink, run, inflight, calls, runCount, emptyBudget,
          runBudget, lastPick, isListening>>

\* The texts the input field is given.
InputTexts == {<< >>, <<" ">>, <<"q">>}

\* The sizes of the files the file input is given.
FileSizes == {SizeLimit, SizeLimit + 1}

\* The text a completion call of a fan-out stage returns when it is not ''.
AnswerOf(stage, unit) == <<stage, ToString(unit)>>

\* The texts the last call before validation returns.
FinalTexts ==
    {<<"answer">>,
     <<"intro", Fence, "js", "bad", Fence, "outro">>,
     <<Fence, "js", "ok", Fence, Fence, "python", "raises", Fence>>,
     <<Fence, "js", "bad", Fence, "mid", Fence, "py", "bad", Fence>>,
     <<Fence, "rust", "bad", Fence>>,
     <<Fence, "python", "ok", Fence>>,
     <<Fence, "JS", "bad", Fence>>}

\* The texts the correction call returns.
\* "$&" is the two characters a corrected snippet may hold, as in
\* s.replace(/[.*+?^${}()|[\]\\]/g, '\\$&').
Corrections == {<<Fence, "js", "ok", Fence>>, <<Fence, "js", "$&", Fence>>}

NoRun ==
    [id |-> 0, pc |-> "idle", numAgents |-> 0, isDeepThink |-> FALSE,
     userInput |-> << >>, apiParts |-> << >>, mainChatHistory |-> << >>,
     initialAnswers |-> << >>, refinedAnswers |-> << >>, critiques |-> << >>,
     finalRevisedAnswers |-> << >>, synthesizedResults |-> << >>,
     synthesizedText |-> << >>, finalSynthesizerResponseText |-> << >>,
     finalResponseText |-> << >>, lastIndex |-> 1, hasCorrected |-> FALSE,
     match |-> NoMatch, syntaxError |-> NoDiagnostic]

Init ==
    /\ messages = << >>
    /\ isLoading = FALSE
    /\ loadingStatus = ""
    /\ progress = InitialProgress
    /\ inputText = << >>
    /\ attachedFile = NoFile
    /\ isDeepThink = FALSE
    /\ run = NoRun
    /\ inflight = {}
    /\ calls = << >>
    /\ runCount = 0
    /\ emptyBudget = 0
    /\ runBudget = MaxRuns
    /\ lastPick = 0
    /\ isListening = FALSE

\* ------------------------------------------------------- input-area handlers

\* onChange of the text input (disabled while loading)
TypeText(t) ==
    /\ ~isLoading
    /\ runBudget > 0
    /\ t # inputText
    /\ inputText' = t
    /\ UNCHANGED <<messages, isLoading, loadingStatus, progress, attachedFile,
                   isDeepThink, run, inflight, calls, runCount, emptyBudget,
                   runBudget, lastPick, isListening>>

\* Variant: the cap compared with the size in megabytes, not in bytes.
TooLargeInMegabytes(size) == size \div (1024 * 1024) > SizeLimit

\* if (file.size > 4 * 1024 * 1024) { alert(...); return; }
TooLarge(size) == size > SizeLimit

\* handleFileChange, with the reader's onloadend (the attach button is disabled
\* while loading)
handleFileChange(size) ==
    /\ ~isLoading
    /\ runBudget > 0
    /\ attachedFile' = IF TooLarge(size) THEN attachedFile ELSE PickedFile
    /\ lastPick' = size
    /\ UNCHANGED <<messages, isLoading, loadingStatus, progress, inputText,
                   isDeepThink, run, inflight, calls, runCount, emptyBudget,
                   runBudget, isListening>>

\* onClick of the remove-attachment button (rendered while a file is attached)
RemoveAttachment ==
    /\ attachedFile.present
    /\ attachedFile' = NoFile
    /\ UNCHANGED <<messages, isLoading, loadingStatus, progress, inputText,
                   isDeepThink, run, inflight, calls, runCount, emptyBudget,
                   runBudget, lastPick, isListening>>

\* The transcripts speech recognition delivers.
Transcripts == {<<"q">>}

\* handleAudioInput (the microphone button is disabled while loading): stops a
\* running recognition, or starts one (onstart).
handleAudioInput ==
    /\ ~isLoading
    /\ runBudget > 0
    /\ isListening' = ~isListening
    /\ UNCHANGED <<messages, isLoading, loadingStatus, progress, inputText,
                   attachedFile, isDeepThink, run, inflight, calls, runCount,
                   emptyBudget, runBudget, lastPick>>

\* recognition.onresult, then onend: whenever the recognition that was started
\* delivers its transcript, also while a run is loading.
onresult(transcript) ==
    /\ isListening
    /\ inputText' = transcript
    /\ isListening' = FALSE
    /\ UNCHANGED <<messages, isLoading, loadingStatus, progress, attachedFile,
                   isDeepThink, run, inflight, calls, runCount, emptyBudget,
                   runBudget, lastPick>>

\* handleDeepThinkToggle (the button is disabled while loading)
handleDeepThinkToggle ==
    /\ ~isLoading
    /\ runBudget > 0
    /\ isDeepThink' = ~isDeepThink
    /\ UNCHANGED <<messages, isLoading, loadingStatus, progress, inputText,
                   attachedFile, run, inflight, calls, runCount, emptyBudget,
                   runBudget, lastPick, isListening>>

\* handleClearChat (never disabled)
handleClearChat ==
    /\ messages # << >>
    /\ messages' = << >>
    /\ UNCHANGED <<isLoading, loadingStatus, progress, inputText, attachedFile,
                   isDeepThink, run, inflight, calls, runCount, emptyBudget,
                   runBudget, lastPick, isListening>>

\* ------------------------------------------------------------ the requests

\* One generateContent call: contents = [...mainChatHistory, turn].
Request(stage, unit, history, parts, sys) ==
    [stage |-> stage, unit |-> unit,
     contents |-> Append(history, [role |-> "user", parts |-> parts]),
     sys |-> sys, status |-> "pending", text |-> << >>]

\* The promise of a call; marks: whether its .then updates the progress state.
Promise(id, stage, unit, marks) ==
    [run |-> id, stage |-> stage, unit |-> unit, marks |-> marks]

\* array.map(...) of a fan-out stage: the n promises, in unit order.
FanOut(id, stage, n) == {Promise(id, stage, u, TRUE) : u \in Units(n)}

\* The position in `calls` of the request of a unit of a stage.
CallIndex(cs, stage, unit) ==
    CHOOSE k \in 1..Len(cs) : cs[k].stage = stage /\ cs[k].unit = unit

Settle(cs, stage, unit, status, text) ==
    [cs EXCEPT ![CallIndex(cs, stage, unit)] = [@ EXCEPT !.status = status, !.text = text]]

\* currentMessages.slice(0, -1).map(msg => ({role, parts: msg.parts.map(...)}))
HistoryPart(p) == IF p.kind = "text" /\ p.val = << >> THEN BarePart ELSE p
HistoryOf(currentMessages) ==
    [k \in 1..(Len(currentMessages) - 1) |->
        [role |-> currentMessages[k].role,
         parts |-> [j \in 1..Len(currentMessages[k].parts) |->
                        HistoryPart(currentMessages[k].parts[j])]]]

\* The requests of each stage, built from the locals r of the run.

InitialRequests(r) ==
    [k \in 1..r.numAgents |->
        Request("initial", k - 1, r.mainChatHistory, r.apiParts, INITIAL_SYSTEM_INSTRUCTION)]

\* Variant: an elaboration request is issued ahead of the Refine requests.
RefinementRequestsAfterElaboration(r) ==
    <<Request("elaborating", 0, r.mainChatHistory, r.apiParts, INITIAL_SYSTEM_INSTRUCTION)>>
        \o [k \in 1..Len(r.initialAnswers) |->
               Request("refining", k - 1, r.mainChatHistory,
                       Append(r.apiParts,
                              InternalContext(RefinementContext(
                                  r.initialAnswers[k], OtherAnswers(r.initialAnswers, k - 1)))),
                       REFINEMENT_SYSTEM_INSTRUCTION)]

RefinementRequests(r) ==
    [k \in 1..Len(r.initialAnswers) |->
        Request("refining", k - 1, r.mainChatHistory,
                Append(r.apiParts,
                       InternalContext(RefinementContext(
                           r.initialAnswers[k], OtherAnswers(r.initialAnswers, k - 1)))),
                REFINEMENT_SYSTEM_INSTRUCTION)]

CritiqueRequests(r) ==
    [k \in 1..Len(r.refinedAnswers) |->
        Request("critiquing", k - 1, r.mainChatHistory,
                Append(r.apiParts,
                       InternalContext(CritiqueContext(
                           r.userInput,
                           At(r.refinedAnswers, CritiquePeer(k - 1, r.numAgents))))),
                CRITIQUE_AGENT_SYSTEM_INSTRUCTION)]

RevisionRequests(r) ==
    [k \in 1..Len(r.refinedAnswers) |->
        Request("revising", k - 1, r.mainChatHistory,
                Append(r.apiParts,
                       InternalContext(RevisionContext(
                           r.refinedAnswers[k],
                           At(r.critiques, RevisionPeer(k - 1, r.numAgents))))),
                REVISION_AGENT_SYSTEM_INSTRUCTION)]

\* synthesizerPromise(firstHalf, 0), synthesizerPromise(secondHalf, 1)
GroupSynthesisRequests(r) ==
    LET firstHalf == Slice(r.finalRevisedAnswers, 0, 3)
        secondHalf == Slice(r.finalRevisedAnswers, 3, 6)
        synthesizerPromise(answers, index) ==
            Request("synthesizing", index, r.mainChatHistory,
                    Append(r.apiParts, InternalContext(GroupSynthesisContext(answers))),
                    SYNTHESIZER_SYSTEM_INSTRUCTION)
    IN <<synthesizerPromise(firstHalf, 0), synthesizerPromise(secondHalf, 1)>>

FinalSynthesisRequests(r) ==
    <<Request("finalSynthesizing", 0, r.mainChatHistory,
              Append(r.apiParts,
                     InternalContext(FinalSynthesizerContext(
                         At(r.synthesizedResults, 0), At(r.synthesizedResults, 1)))),
              SYNTHESIZER_SYSTEM_INSTRUCTION)>>

ReviewRequests(r) ==
    <<Request("reviewing", 0, r.mainChatHistory,
              <<TextPart(ReviewContext(r.userInput, r.synthesizedText))>>,
              FINAL_REVIEW_SYSTEM_INSTRUCTION)>>

\* Variant: the synthesis turn is built like the review turn, from its text
\* part alone.
SynthesisRequestsWithoutAttachment(r) ==
    <<Request("synthesizing", 0, r.mainChatHistory,
              <<InternalContext(SynthesizerContext(r.numAgents, r.refinedAnswers))>>,
              SYNTHESIZER_SYSTEM_INSTRUCTION)>>

\* Standard mode: answersForSynthesis is refinedAnswers.
SynthesisRequests(r) ==
    <<Request("synthesizing", 0, r.mainChatHistory,
              Append(r.apiParts,
                     InternalContext(SynthesizerContext(r.numAgents, r.refinedAnswers))),
              SYNTHESIZER_SYSTEM_INSTRUCTION)>>

CorrectionRequests(r, lang, code, syntaxError) ==
    <<Request("verifying", 0, r.mainChatHistory,
              <<TextPart(VerifierContext(lang, code))>>,
              VerifierInstruction(syntaxError))>>

\* ---------------------------------------------------------- runOrchestration

Running == run.pc \notin {"idle", "done", "error"}

\* Variant: DeepThink dispatched with the Standard agent count.
NumAgentsAlwaysStandard(deep) == AgentsStandard

\* handleSubmit: runOrchestration(6, true) or runOrchestration(4, false)
NumAgents(deep) == IF deep THEN AgentsDeep ELSE AgentsStandard

\* Variant: the submit button is disabled on an empty input only.
SubmitDisabledOnEmptyOnly(loading, text, file) == Trim(text) = << >> /\ ~file.present

\* disabled={isLoading || (!inputText.trim() && !attachedFile)} of the submit
\* button, the only way to the form's onSubmit while the text input is disabled
SubmitDisabled(loading, text, file) ==
    loading \/ (Trim(text) = << >> /\ ~file.present)

\* handleSubmit and runOrchestration up to its first await (stage 1 dispatched).
handleSubmit ==
    /\ ~SubmitDisabled(isLoading, inputText, attachedFile)
    /\ ~(Trim(inputText) = << >> /\ ~attachedFile.present)
    /\ runBudget > 0
    /\ LET numAgents == NumAgents(isDeepThink)
           userInput == Trim(inputText)
           apiParts ==
               (IF attachedFile.present THEN <<InlinePart(attachedFile)>> ELSE << >>)
                   \o (IF userInput # << >> THEN <<TextPart(userInput)>> ELSE << >>)
           userMessage == [role |-> "user", parts |-> apiParts]
           currentMessages == Append(messages, userMessage)
           r == [NoRun EXCEPT
                    !.id = runCount + 1, !.pc = "initial", !.numAgents = numAgents,
                    !.isDeepThink = isDeepThink, !.userInput = userInput,
                    !.apiParts = apiParts,
                    !.mainChatHistory = HistoryOf(currentMessages),
                    !.initialAnswers = Fill(numAgents, EmptyText)]
       IN /\ inputText' = << >>
          /\ attachedFile' = NoFile
          /\ messages' = currentMessages
          /\ isLoading' = TRUE
          /\ progress' = FreshProgress(numAgents, isDeepThink)
          /\ loadingStatus' = "Initializing agents..."
          /\ run' = r
          /\ calls' = InitialRequests(r)
          /\ inflight' = inflight \cup FanOut(r.id, "initial", numAgents)
          /\ runCount' = runCount + 1
          /\ runBudget' = runBudget - 1
    /\ UNCHANGED <<isDeepThink, emptyBudget, lastPick, isListening>>

\* Variant: answers.push(res.text), the array filled in completion order.
PushAnswer(arr, text) ==
    LET free == {k \in 1..Len(arr) : arr[k] = EmptyText} IN
    IF free = {} THEN arr
    ELSE [arr EXCEPT ![CHOOSE k \in free : \A j \in free : k <= j] = text]

WriteAnswerInCompletionOrder(r, stage, unit, text) ==
    CASE stage = "initial" -> [r EXCEPT !.initialAnswers = PushAnswer(@, text)]
      [] stage = "refining" -> [r EXCEPT !.refinedAnswers = PushAnswer(@, text)]
      [] stage = "critiquing" -> [r EXCEPT !.critiques = PushAnswer(@, text)]
      [] stage = "revising" -> [r EXCEPT !.finalRevisedAnswers = PushAnswer(@, text)]
      [] stage = "synthesizing" -> [r EXCEPT !.synthesizedResults = PushAnswer(@, text)]

\* res => { answers[i] = res.text; ... } of a fan-out unit
WriteAnswer(r, stage, unit, text) ==
    CASE stage = "initial" -> [r EXCEPT !.initialAnswers = SetAt(@, unit, text)]
      [] stage = "refining" -> [r EXCEPT !.refinedAnswers = SetAt(@, unit, text)]
      [] stage = "critiquing" -> [r EXCEPT !.critiques = SetAt(@, unit, text)]
      [] stage = "revising" -> [r EXCEPT !.finalRevisedAnswers = SetAt(@, unit, text)]
      [] stage = "synthesizing" -> [r EXCEPT !.synthesizedResults = SetAt(@, unit, text)]

\* Variant: the barrier of Promise.race / Promise.any (first fulfilment).
BarrierPassedOnFirst(cs, stage) ==
    \E k \in 1..Len(cs) : cs[k].stage = stage /\ cs[k].status = "ok"

\* await Promise.all(promises): fulfilled once every promise of the stage is.
BarrierPassed(cs, stage) ==
    \A k \in 1..Len(cs) : cs[k].stage = stage => cs[k].status = "ok"

\* The code between the await of a fan-out stage and the next await.
AfterBarrier(r) ==
    CASE r.pc = "initial" ->
            LET r2 == [r EXCEPT !.pc = "refining",
                                !.refinedAnswers = Fill(r.numAgents, EmptyText)]
            IN [run |-> r2, requests |-> RefinementRequests(r2),
                promises |-> FanOut(r.id, "refining", Len(r.initialAnswers)),
                status |-> "Refining answers..."]
      [] r.pc = "refining" /\ r.isDeepThink ->
            LET r2 == [r EXCEPT !.pc = "critiquing",
                                !.critiques = Fill(r.numAgents, EmptyText)]
            IN [run |-> r2, requests |-> CritiqueRequests(r2),
                promises |-> FanOut(r.id, "critiquing", Len(r.refinedAnswers)),
                status |-> "Critiquing responses..."]
      [] r.pc = "refining" /\ ~r.isDeepThink ->
            LET r2 == [r EXCEPT !.pc = "synthesizing"]
            IN [run |-> r2, requests |-> SynthesisRequests(r2),
                promises |-> {Promise(r.id, "synthesizing", 0, FALSE)},
                status |-> "Synthesizing final response..."]
      [] r.pc = "critiquing" ->
            LET r2 == [r EXCEPT !.pc = "revising",
                                !.finalRevisedAnswers = Fill(r.numAgents, EmptyText)]
            IN [run |-> r2, requests |-> RevisionRequests(r2),
                promises |-> FanOut(r.id, "revising", Len(r.refinedAnswers)),
                status |-> "Revising based on feedback..."]
      [] r.pc = "revising" ->
            LET r2 == [r EXCEPT !.pc = "synthesizing",
                                !.synthesizedResults = Fill(2, EmptyText)]
            IN [run |-> r2, requests |-> GroupSynthesisRequests(r2),
                promises |-> FanOut(r.id, "synthesizing", 2),
                status |-> "Synthesizing responses..."]
      [] r.pc = "synthesizing" ->
            LET r2 == [r EXCEPT !.pc = "finalSynthesizing"]
            IN [run |-> r2, requests |-> FinalSynthesisRequests(r2),
                promises |-> {Promise(r.id, "finalSynthesizing", 0, FALSE)},
                status |-> "Finalizing response..."]

\* Whether the run is suspended at the await that the promise belongs to.
Live(req) == req.run = run.id /\ run.pc = req.stage

\* The texts a completion call of a unit may return.
ResponseTexts(stage, unit) ==
    {AnswerOf(stage, unit)} \cup (IF emptyBudget > 0 THEN {EmptyText} ELSE {})

SpendEmpty(text) == IF text = EmptyText THEN emptyBudget - 1 ELSE emptyBudget

\* A unit of a fan-out stage fulfils while the run awaits its stage: the .then
\* callback, and the continuation of the run when the barrier is passed.
UnitResolves(req, text) ==
    /\ req \in inflight
    /\ req.marks
    /\ Live(req)
    /\ text \in ResponseTexts(req.stage, req.unit)
    /\ LET r1 == WriteAnswer(run, req.stage, req.unit, text)
           c1 == Settle(calls, req.stage, req.unit, "ok", text)
           passed == BarrierPassed(c1, req.stage)
           nxt == AfterBarrier(r1)
       IN /\ progress' = MarkUnit(progress, req.stage, req.unit)
          /\ run' = IF passed THEN nxt.run ELSE r1
          /\ calls' = IF passed THEN c1 \o nxt.requests ELSE c1
          /\ inflight' = (inflight \ {req}) \cup (IF passed THEN nxt.promises ELSE {})
          /\ loadingStatus' = IF passed THEN nxt.status ELSE loadingStatus
    /\ emptyBudget' = SpendEmpty(text)
    /\ UNCHANGED <<messages, isLoading, inputText, attachedFile, isDeepThink,
                   runCount, runBudget, lastPick, isListening>>

\* A promise fulfils after its run stopped awaiting it (a sibling was rejected):
\* its .then callback still runs, on the arrays of its own run and on the
\* progress state of whichever run is current.
StaleResolves(req) ==
    /\ req \in inflight
    /\ ~Live(req)
    /\ progress' = IF req.marks THEN MarkUnit(progress, req.stage, req.unit) ELSE progress
    /\ inflight' = inflight \ {req}
    /\ IF req.run = run.id
       THEN /\ run' = IF req.marks
                      THEN WriteAnswer(run, req.stage, req.unit, AnswerOf(req.stage, req.unit))
                      ELSE run
            /\ calls' = Settle(calls, req.stage, req.unit, "ok", AnswerOf(req.stage, req.unit))
       ELSE UNCHANGED <<run, calls>>
    /\ UNCHANGED <<messages, isLoading, loadingStatus, inputText, attachedFile,
                   isDeepThink, runCount, emptyBudget,
                   runBudget, lastPick, isListening>>

\* Variant: the apology is appended by the catch block and again by finally.
CatchMessagesTwice(prev) ==
    LET apology == [role |-> "model", parts |-> <<[kind |-> "text", val |-> ApologyText]>>]
    IN Append(Append(prev, apology), apology)

\* catch (error) { setMessages(prev => [...prev, apology]) }
CatchMessages(prev) ==
    Append(prev, [role |-> "model", parts |-> <<TextPart(ApologyText)>>])

\* Variant: the rejected request is issued again (a retry).
CallsAfterRejectionWithRetry(cs, stage, unit) ==
    LET c == cs[CallIndex(cs, stage, unit)] IN
    Append(Settle(cs, stage, unit, "failed", << >>),
           [c EXCEPT !.status = "pending", !.text = << >>])

\* The history of requests after one of them is rejected: nothing is re-issued.
CallsAfterRejection(cs, stage, unit) == Settle(cs, stage, unit, "failed", << >>)

\* A call is rejected while the run awaits it: catch, then finally.
CallFails(req) ==
    /\ req \in inflight
    /\ Live(req)
    /\ messages' = CatchMessages(messages)
    /\ isLoading' = FALSE
    /\ run' = [run EXCEPT !.pc = "error"]
    /\ calls' = CallsAfterRejection(calls, req.stage, req.unit)
    /\ inflight' = inflight \ {req}
    /\ UNCHANGED <<loadingStatus, progress, inputText, attachedFile, isDeepThink,
                   runCount, emptyBudget,
                   runBudget, lastPick, isListening>>

\* A promise is rejected after its run stopped awaiting it: nothing handles it.
StaleFails(req) ==
    /\ req \in inflight
    /\ ~Live(req)
    /\ inflight' = inflight \ {req}
    /\ calls' = IF req.run = run.id
                THEN Settle(calls, req.stage, req.unit, "failed", << >>)
                ELSE calls
    /\ UNCHANGED <<messages, isLoading, loadingStatus, progress, inputText,
                   attachedFile, isDeepThink, run, runCount, emptyBudget,
                   runBudget, lastPick, isListening>>

\* The single awaited call of a stage, when the run awaits it.
Awaited(stage) == Promise(run.id, stage, 0, FALSE)

\* Stage 5 fulfils: setProgress, then the review request (stage 6).
FinalSynthesisResolves(text) ==
    /\ Awaited("finalSynthesizing") \in inflight
    /\ Live(Awaited("finalSynthesizing"))
    /\ text \in ResponseTexts("finalSynthesizing", 0)
    /\ LET r2 == [run EXCEPT !.pc = "reviewing", !.synthesizedText = text]
       IN /\ run' = r2
          /\ calls' = Settle(calls, "finalSynthesizing", 0, "ok", text) \o ReviewRequests(r2)
          /\ inflight' = (inflight \ {Awaited("finalSynthesizing")})
                             \cup {Promise(run.id, "reviewing", 0, FALSE)}
    /\ progress' = MarkFlag(progress, "finalSynthesizing")
    /\ loadingStatus' = "Performing final review..."
    /\ emptyBudget' = SpendEmpty(text)
    /\ UNCHANGED <<messages, isLoading, inputText, attachedFile, isDeepThink,
                   runCount, runBudget, lastPick, isListening>>

\* Variant: the candidate final text is the Final Synthesis output (the text
\* the review was asked to polish), not the text of the last stage.
BeginValidationOnSynthesizedText(r, text) ==
    [r EXCEPT !.pc = "validating", !.finalSynthesizerResponseText = r.synthesizedText,
              !.finalResponseText = r.synthesizedText, !.lastIndex = 1,
              !.hasCorrected = FALSE, !.match = NoMatch, !.syntaxError = NoDiagnostic]

\* let finalResponseText = finalSynthesizerResponseText; ... (before the loop)
BeginValidation(r, text) ==
    [r EXCEPT !.pc = "validating", !.finalSynthesizerResponseText = text,
              !.finalResponseText = text, !.lastIndex = 1, !.hasCorrected = FALSE,
              !.match = NoMatch, !.syntaxError = NoDiagnostic]

\* The texts the last call before validation may return.
FinalResponseTexts == FinalTexts \cup (IF emptyBudget > 0 THEN {EmptyText} ELSE {})

\* Stage 6 fulfils (DeepThink): the review's text is the candidate final text.
ReviewResolves(text) ==
    /\ Awaited("reviewing") \in inflight
    /\ Live(Awaited("reviewing"))
    /\ text \in FinalResponseTexts
    /\ run' = BeginValidation(run, text)
    /\ calls' = Settle(calls, "reviewing", 0, "ok", text)
    /\ inflight' = inflight \ {Awaited("reviewing")}
    /\ progress' = MarkFlag(progress, "reviewing")
    /\ emptyBudget' = SpendEmpty(text)
    /\ UNCHANGED <<messages, isLoading, loadingStatus, inputText, attachedFile,
                   isDeepThink, runCount, runBudget, lastPick, isListening>>

\* Stage 4 fulfils (Standard): the synthesis is the candidate final text.
SynthesisResolves(text) ==
    /\ Awaited("synthesizing") \in inflight
    /\ Live(Awaited("synthesizing"))
    /\ text \in FinalResponseTexts
    /\ run' = BeginValidation(run, text)
    /\ calls' = Settle(calls, "synthesizing", 0, "ok", text)
    /\ inflight' = inflight \ {Awaited("synthesizing")}
    /\ progress' = MarkSynthesized(progress)
    /\ emptyBudget' = SpendEmpty(text)
    /\ UNCHANGED <<messages, isLoading, loadingStatus, inputText, attachedFile,
                   isDeepThink, runCount, runBudget, lastPick, isListening>>

\* setMessages(prev => [...prev, finalMessage])
FinalMessages(prev, finalResponseText) ==
    Append(prev, [role |-> "model", parts |-> <<TextPart(finalResponseText)>>])

\* One evaluation of the loop condition and, when it holds, one iteration up to
\* its next await (the await of checkCodeSyntax is part of the step).
\* sk: whether window.Sk is defined when checkCodeSyntax runs.
ValidateStep(sk) ==
    /\ run.pc = "validating"
    /\ LET m == RegexExec(run.finalSynthesizerResponseText, run.lastIndex)
           syntaxError == checkCodeSyntax(m.lang, m.code, sk)
       IN IF ~(m.found /\ ~run.hasCorrected)
          THEN /\ messages' = FinalMessages(messages, run.finalResponseText)
               /\ isLoading' = FALSE
               /\ run' = [run EXCEPT !.pc = "done"]
               /\ UNCHANGED <<calls, inflight, loadingStatus>>
          ELSE IF Truthy(syntaxError)
          THEN /\ run' = [run EXCEPT !.pc = "verifying", !.match = m, !.lastIndex = m.last,
                                     !.syntaxError = syntaxError]
               /\ calls' = calls \o CorrectionRequests(run, m.lang, m.code, syntaxError.message)
               /\ inflight' = inflight \cup {Promise(run.id, "verifying", 0, FALSE)}
               /\ loadingStatus' = "Correcting code error..."
               /\ UNCHANGED <<messages, isLoading>>
          ELSE /\ run' = [run EXCEPT !.match = m, !.lastIndex = m.last,
                                     !.syntaxError = syntaxError]
               /\ UNCHANGED <<messages, isLoading, calls, inflight, loadingStatus>>
    /\ UNCHANGED <<progress, inputText, attachedFile, isDeepThink, runCount, emptyBudget,
                   runBudget, lastPick, isListening>>

\* The correction call fulfils: the block is replaced, the loop ends and the
\* final message is appended.
CorrectionResolves(text) ==
    /\ Awaited("verifying") \in inflight
    /\ Live(Awaited("verifying"))
    /\ text \in Corrections
    /\ LET finalResponseText ==
               StringReplace(run.finalSynthesizerResponseText, run.match.whole, text)
       IN /\ run' = [run EXCEPT !.pc = "done", !.finalResponseText = finalResponseText,
                                !.hasCorrected = TRUE]
          /\ messages' = FinalMessages(messages, finalResponseText)
    /\ calls' = Settle(calls, "verifying", 0, "ok", text)
    /\ inflight' = inflight \ {Awaited("verifying")}
    /\ progress' = MarkFlag(progress, "verifying")
    /\ isLoading' = FALSE
    /\ UNCHANGED <<loadingStatus, inputText, attachedFile, isDeepThink, runCount, emptyBudget,
                   runBudget, lastPick, isListening>>

\* ---------------------------------------------------------- specification

Next ==
    \/ \E t \in InputTexts : TypeText(t)
    \/ \E size \in FileSizes : handleFileChange(size)
    \/ RemoveAttachment
    \/ handleDeepThinkToggle
    \/ handleClearChat
    \/ handleSubmit
    \/ \E req \in inflight : \E text \in ResponseTexts(req.stage, req.unit) :
          UnitResolves(req, text)
    \/ \E req \in inflight : StaleResolves(req)
    \/ \E req \in inflight : CallFails(req)
    \/ \E req \in inflight : StaleFails(req)
    \/ \E text \in ResponseTexts("finalSynthesizing", 0) : FinalSynthesisResolves(text)
    \/ \E text \in FinalTexts : ReviewResolves(text)
    \/ \E text \in FinalTexts : SynthesisResolves(text)
    \/ \E sk \in BOOLEAN : ValidateStep(sk)
    \/ \E text \in Corrections : CorrectionResolves(text)

Spec == Init /\ [][Next]_vars

\* The completion client may return '' (at most MaxEmpty times) and never
\* rejects a call; the conversation is not cleared.
InitEmpty ==
    /\ messages = << >>
    /\ isLoading = FALSE
    /\ loadingStatus = ""
    /\ progress = InitialProgress
    /\ inputText = << >>
    /\ attachedFile = NoFile
    /\ isDeepThink = FALSE
    /\ run = NoRun
    /\ inflight = {}
    /\ calls = << >>
    /\ runCount = 0
    /\ emptyBudget = MaxEmpty
    /\ runBudget = MaxRuns
    /\ lastPick = 0
    /\ isListening = FALSE

NextEmpty ==
    \/ \E t \in InputTexts : TypeText(t)
    \/ handleDeepThinkToggle
    \/ handleSubmit
    \/ \E req \in inflight : \E text \in ResponseTexts(req.stage, req.unit) :
          UnitResolves(req, text)
    \/ \E text \in ResponseTexts("finalSynthesizing", 0) : FinalSynthesisResolves(text)
    \/ \E text \in FinalTexts : ReviewResolves(text)
    \/ \E text \in FinalTexts : SynthesisResolves(text)
    \/ \E sk \in BOOLEAN : ValidateStep(sk)
    \/ \E text \in Corrections : CorrectionResolves(text)

SpecEmpty == InitEmpty /\ [][NextEmpty]_vars

\* Consecutive Standard runs: the user submits up to MaxRunsInSequence times,
\* dictates or types the input, and may clear the chat at any moment; calls
\* may be rejected and the last call of a run may return ''.
InitTwoRuns ==
    /\ messages = << >>
    /\ isLoading = FALSE
    /\ loadingStatus = ""
    /\ progress = InitialProgress
    /\ inputText = << >>
    /\ attachedFile = NoFile
    /\ isDeepThink = FALSE
    /\ run = NoRun
    /\ inflight = {}
    /\ calls = << >>
    /\ runCount = 0
    /\ emptyBudget = MaxEmpty
    /\ runBudget = MaxRunsInSequence
    /\ lastPick = 0
    /\ isListening = FALSE

NextTwoRuns ==
    \/ TypeText(<<"q">>)
    \/ handleAudioInput
    \/ \E transcript \in Transcripts : onresult(transcript)
    \/ handleClearChat
    \/ handleSubmit
    \/ \E req \in inflight : \E text \in {AnswerOf(req.stage, req.unit)} :
          UnitResolves(req, text)
    \/ \E req \in inflight : StaleResolves(req)
    \/ \E req \in inflight : CallFails(req)
    \/ \E req \in inflight : StaleFails(req)
    \/ \E text \in {<<"answer">>, EmptyText} : SynthesisResolves(text)
    \/ ValidateStep(TRUE)

SpecTwoRuns == InitTwoRuns /\ [][NextTwoRuns]_vars

\* The steps the event loop takes on its own: a pending call settles, or the
\* validator check of the repair loop returns.
RunStep ==
    \/ \E req \in inflight : \E text \in ResponseTexts(req.stage, req.unit) :
          UnitResolves(req, text)
    \/ \E req \in inflight : StaleResolves(req)
    \/ \E req \in inflight : CallFails(req)
    \/ \E req \in inflight : StaleFails(req)
    \/ \E text \in ResponseTexts("finalSynthesizing", 0) : FinalSynthesisResolves(text)
    \/ \E text \in FinalTexts : ReviewResolves(text)
    \/ \E text \in FinalTexts : SynthesisResolves(text)
    \/ \E sk \in BOOLEAN : ValidateStep(sk)
    \/ \E text \in Corrections : CorrectionResolves(text)

\* Every issued call and every validator check eventually resolves or fails,
\* and the continuation of a settled promise is eventually run.
SpecFair == Init /\ [][Next]_vars /\ WF_vars(RunStep)

\* ------------------------------------------------- reading the call history

\* The place of a stage in the order of the pipeline.
StageRank(stage) ==
    CASE stage = "initial" -> 1
      [] stage = "refining" -> 2
      [] stage = "critiquing" -> 3
      [] stage = "revising" -> 4
      [] stage = "synthesizing" -> 5
      [] stage = "finalSynthesizing" -> 6
      [] stage = "reviewing" -> 7
      [] stage = "verifying" -> 8

CallsOf(stage) == {k \in 1..Len(calls) : calls[k].stage = stage}
CallsOfUnit(stage, unit) == {k \in CallsOf(stage) : calls[k].unit = unit}
Issued(stage) == CallsOf(stage) # {}
HasFailed(cs) == \E k \in 1..Len(cs) : cs[k].status = "failed"

\* The text the completion client returned for the request of a unit.
Returned(stage, unit) == calls[CallIndex(calls, stage, unit)].text

\* The parts of the current turn of a request.
TurnParts(c) == c.contents[Len(c.contents)].parts

\* The array of the run that the units of a fan-out stage fill.
OutputSet(stage) ==
    CASE stage = "initial" -> run.initialAnswers
      [] stage = "refining" -> run.refinedAnswers
      [] stage = "critiquing" -> run.critiques
      [] stage = "revising" -> run.finalRevisedAnswers
      [] stage = "synthesizing" -> run.synthesizedResults

\* The fan-out stages of the topology of the latest run.
ArrayStages ==
    IF run.isDeepThink THEN FanOutStages ELSE {"initial", "refining"}

\* The fan-out stage whose output set a stage consumes.
PreviousStage(stage) ==
    CASE stage = "refining" -> "initial"
      [] stage = "critiquing" -> "refining"
      [] stage = "revising" -> "critiquing"
      [] stage = "synthesizing" -> IF run.isDeepThink THEN "revising" ELSE "refining"
      [] stage = "finalSynthesizing" -> "synthesizing"

ConsumingStages ==
    {"refining", "critiquing", "revising", "synthesizing", "finalSynthesizing"}

\* ------------------------------------------------------------------ claims

\* C1. Fan-in barrier: a request of a later stage is in the history of a run
\* only when every request of every earlier stage of that run has been
\* fulfilled.
C1_FanInBarrier ==
    \A j, k \in 1..Len(calls) :
        StageRank(calls[j].stage) < StageRank(calls[k].stage) => calls[j].status = "ok"

\* A DeepThink run whose Revise stage is dispatched and still has units in flight.
C1_Witness ==
    /\ run.isDeepThink
    /\ run.pc = "revising"
    /\ \E k \in CallsOf("revising") : calls[k].status = "pending"
    /\ \E k \in CallsOf("revising") : calls[k].status = "ok"

\* C2. Entry i of the output set of a fan-out stage is the text the client
\* returned for the request of unit i (and '' while that request has not been
\* fulfilled), whatever the order in which the units complete.
C2_OutputOrderIsInputOrder ==
    \A stage \in ArrayStages : \A k \in CallsOf(stage) :
        /\ calls[k].unit \in Units(Len(OutputSet(stage)))
        /\ At(OutputSet(stage), calls[k].unit) =
               (IF calls[k].status = "ok" THEN calls[k].text ELSE EmptyText)

\* The last unit of a stage has completed while unit 0 is still in flight, and
\* the stage before was completed too.
C2_Witness ==
    /\ run.pc = "refining"
    /\ Returned("refining", run.numAgents - 1) = AnswerOf("refining", run.numAgents - 1)
    /\ calls[CallIndex(calls, "refining", 0)].status = "pending"
    /\ At(run.refinedAnswers, run.numAgents - 1) = AnswerOf("refining", run.numAgents - 1)

\* C3 as stated: whenever a stage after Initial has begun, every entry of the
\* output set of the stage before it is a non-empty text.
C3_EntriesNonEmpty ==
    \A stage \in ConsumingStages :
        Issued(stage) =>
            \A i \in Units(Len(OutputSet(PreviousStage(stage)))) :
                At(OutputSet(PreviousStage(stage)), i) # EmptyText

\* C3 amended: whenever a stage after Initial has begun, every unit of the
\* stage before it has been fulfilled and its entry of the output set is the
\* text the client returned for it (empty exactly when that text is empty).
C3_EntriesAreReturnedTexts ==
    \A stage \in ConsumingStages :
        Issued(stage) =>
            LET prev == PreviousStage(stage) IN
            /\ Len(OutputSet(prev)) = Cardinality(CallsOf(prev))
            /\ \A k \in CallsOf(prev) :
                  /\ calls[k].status = "ok"
                  /\ At(OutputSet(prev), calls[k].unit) = calls[k].text

\* A stage has begun on an output set one entry of which is ''.
C3_Witness ==
    \E stage \in ConsumingStages :
        /\ Issued(stage)
        /\ \E k \in CallsOf(PreviousStage(stage)) :
              /\ calls[k].status = "ok"
              /\ calls[k].text = EmptyText
              /\ At(OutputSet(PreviousStage(stage)), calls[k].unit) = EmptyText

\* C4. Failure short-circuit: in a step that leaves a rejected request in the
\* history of the run, and in every later step of that run, no request is added
\* to the history.
C4_FailureShortCircuit ==
    [][(HasFailed(calls') /\ run'.id = run.id) =>
          /\ Len(calls') = Len(calls)
          /\ run'.pc = "error"]_vars

\* The second of four Refinement units was rejected and its three siblings
\* were fulfilled afterwards.
C4_Witness ==
    /\ run.numAgents = AgentsStandard
    /\ run.pc = "error"
    /\ \E k \in CallsOf("refining") : calls[k].unit = 1 /\ calls[k].status = "failed"
    /\ \A k \in CallsOf("refining") : calls[k].unit # 1 => calls[k].status = "ok"
    /\ inflight = {}

ModelTurns(msgs) == Cardinality({k \in 1..Len(msgs) : msgs[k].role = "model"})

\* The text of the last stage before validation.
CandidateStage == IF run.isDeepThink THEN "reviewing" ELSE "synthesizing"

\* C5. The step that ends a run appends exactly one model turn: the final
\* answer when no call was rejected (the candidate text when no correction was
\* requested), the apology when one was; no other step adds a model turn.
C5_OneModelTurnPerRun ==
    [][IF Running /\ run'.pc \in {"done", "error"}
       THEN /\ Len(messages') = Len(messages) + 1
            /\ SubSeq(messages', 1, Len(messages)) = messages
            /\ messages'[Len(messages')].role = "model"
            /\ Len(messages'[Len(messages')].parts) = 1
            /\ LET said == messages'[Len(messages')].parts[1].val IN
               IF run'.pc = "done"
               THEN /\ ~HasFailed(calls')
                    /\ said # ApologyText
                    /\ ~Issued("verifying") => said = Returned(CandidateStage, 0)
               ELSE /\ HasFailed(calls')
                    /\ said = ApologyText
       ELSE ModelTurns(messages') <= ModelTurns(messages)]_vars

\* A run has ended with its final answer as the second turn of the conversation.
C5_Witness ==
    /\ run.pc = "done"
    /\ Len(messages) = 2
    /\ messages[2].role = "model"
    /\ messages[2].parts[1].val = run.finalResponseText

\* Whether no boolean of progress state p is true and false in q.
NoFlagCleared(p, q) ==
    /\ \A key \in FanOutStages :
          /\ Len(q[key]) = Len(p[key])
          /\ \A k \in 1..Len(p[key]) : p[key][k] => q[key][k]
    /\ \A key \in {"finalSynthesizing", "reviewing", "verifying"} : p[key] => q[key]

\* C6. Progress monotonicity: a step that is not the start of a run clears no
\* boolean of the progress state and changes the length of none of its arrays.
C6_ProgressMonotone ==
    [][run'.id = run.id => NoFlagCleared(progress, progress')]_vars

\* The synthesis of a Standard run is done: flags of three stages are true.
C6_Witness ==
    /\ ~run.isDeepThink
    /\ run.pc = "validating"
    /\ progress.synthesizing = <<TRUE>>
    /\ \A k \in 1..AgentsStandard : progress.initial[k] /\ progress.refining[k]

\* C7. No lost progress update: once every unit of a stage of the run has been
\* fulfilled, every progress flag of that stage is true.
C7_NoLostUpdate ==
    /\ \A stage \in FanOutStages :
          (Issued(stage) /\ \A k \in CallsOf(stage) : calls[k].status = "ok") =>
              /\ Len(progress[stage]) = Cardinality(CallsOf(stage))
              /\ \A k \in 1..Len(progress[stage]) : progress[stage][k]
    /\ \A stage \in {"finalSynthesizing", "reviewing", "verifying"} :
          (Issued(stage) /\ \A k \in CallsOf(stage) : calls[k].status = "ok") =>
              progress[stage]

\* Both group syntheses of a DeepThink run are done, after four full stages.
C7_Witness ==
    /\ run.isDeepThink
    /\ run.pc = "finalSynthesizing"
    /\ progress.synthesizing = <<TRUE, TRUE>>
    /\ \A k \in 1..AgentsDeep : progress.revising[k]

\* The number of requests a successful run issues for a stage.
FanOutOf(stage, deep) ==
    CASE stage \in {"initial", "refining"} -> IF deep THEN 6 ELSE 4
      [] stage \in {"critiquing", "revising"} -> IF deep THEN 6 ELSE 0
      [] stage = "synthesizing" -> IF deep THEN 2 ELSE 1
      [] stage \in {"finalSynthesizing", "reviewing"} -> IF deep THEN 1 ELSE 0

PipelineStages == FanOutStages \cup {"finalSynthesizing", "reviewing"}

\* C8. No retry and fixed fan-out: no unit of a stage has two requests in the
\* history of a run, no stage has more requests than its fan-out and at most
\* one correction is requested; a run that ends with its final answer has
\* issued exactly 4 + 4 + 1 (Standard) or 6 + 6 + 6 + 6 + 2 + 1 + 1 (DeepThink)
\* requests besides the correction.
C8_FixedFanOutNoRetry ==
    /\ \A j, k \in 1..Len(calls) :
          (calls[j].stage = calls[k].stage /\ calls[j].unit = calls[k].unit) => j = k
    /\ \A stage \in PipelineStages :
          Cardinality(CallsOf(stage)) <= FanOutOf(stage, run.isDeepThink)
    /\ Cardinality(CallsOf("verifying")) <= 1
    /\ run.pc = "done" =>
          /\ \A stage \in PipelineStages :
                Cardinality(CallsOf(stage)) = FanOutOf(stage, run.isDeepThink)
          /\ Len(calls) = (IF run.isDeepThink THEN 28 ELSE 9)
                             + Cardinality(CallsOf("verifying"))

\* A DeepThink run has ended with its final answer after one correction.
C8_Witness ==
    /\ run.isDeepThink
    /\ run.pc = "done"
    /\ Len(calls) = 29
    /\ Issued("verifying")

\* C9. Critique ring: the request of critique unit i embeds the text returned
\* for Refine unit (i + 1) mod N, which is not unit i; once the stage is
\* dispatched every unit has one critique request and every Refine output is
\* the subject of exactly one of them.
C9_CritiqueRing ==
    LET N == run.numAgents
        Subject(i) == (i + 1) % N
    IN Issued("critiquing") =>
          /\ \A i \in Units(N) : Cardinality(CallsOfUnit("critiquing", i)) = 1
          /\ \A k \in CallsOf("critiquing") :
                /\ Subject(calls[k].unit) # calls[k].unit
                /\ TurnParts(calls[k]) =
                       Append(run.apiParts,
                              InternalContext(CritiqueContext(
                                  run.userInput, Returned("refining", Subject(calls[k].unit)))))
          /\ \A j \in Units(N) :
                Cardinality({k \in CallsOf("critiquing") :
                    TurnParts(calls[k]) =
                        Append(run.apiParts,
                               InternalContext(CritiqueContext(
                                   run.userInput, Returned("refining", j))))}) = 1

\* The six critique requests of a DeepThink run are dispatched.
C9_Witness ==
    /\ run.pc = "critiquing"
    /\ run.numAgents = AgentsDeep
    /\ Cardinality(CallsOf("critiquing")) = AgentsDeep

\* C10. Revision ring: the request of revision unit i embeds, as the original
\* response, the text returned for Refine unit i and, as the critique, the text
\* returned for critique unit (i - 1 + N) mod N, whose own request embedded the
\* text returned for Refine unit i.
C10_RevisionRing ==
    LET N == run.numAgents
        Author(i) == (i - 1 + N) % N
    IN \A k \in CallsOf("revising") :
          LET i == calls[k].unit IN
          /\ TurnParts(calls[k]) =
                 Append(run.apiParts,
                        InternalContext(RevisionContext(
                            Returned("refining", i), Returned("critiquing", Author(i)))))
          /\ TurnParts(calls[CallIndex(calls, "critiquing", Author(i))]) =
                 Append(run.apiParts,
                        InternalContext(CritiqueContext(
                            run.userInput, Returned("refining", i))))

\* The six revision requests of a DeepThink run are dispatched.
C10_Witness ==
    /\ run.pc = "revising"
    /\ run.numAgents = AgentsDeep
    /\ Cardinality(CallsOf("revising")) = AgentsDeep

\* The number (1..N-1) that unit j's answer carries in the list of unit i.
PeerNumber(i, j) == IF j < i THEN j + 1 ELSE j

\* The list of a Refine prompt as C11 describes it: the Initial answers of the
\* units other than i, in ascending unit order, numbered from 1.
PeerListOf(i, N) ==
    Concat([n \in 1..(N - 1) |->
                <<ToString(n), ".">>
                    \o Returned("initial", CHOOSE j \in Units(N) \ {i} : PeerNumber(i, j) = n)])

\* C11. Refinement peer selection: the request of Refine unit i embeds the
\* Initial answer of unit i as the response it works with and, after it, the
\* Initial answers of exactly the N-1 other units, each once, in ascending unit
\* order, numbered 1..N-1, behind the attachment parts of the user's turn.
C11_RefinementPeers ==
    \A k \in CallsOf("refining") :
        LET i == calls[k].unit
            N == run.numAgents
        IN TurnParts(calls[k]) =
               Append(run.apiParts,
                      TextPart(<<"---INTERNAL CONTEXT---",
                                 "The response I'm working with is:">>
                                   \o Returned("initial", i)
                                   \o <<"The other agents responded with:">>
                                   \o PeerListOf(i, N)
                                   \o <<"Based on this context, critically re-evaluate">>))

\* The four Refine requests of a Standard run are dispatched, each Initial
\* answer being a different text.
C11_Witness ==
    /\ run.pc = "refining"
    /\ run.numAgents = AgentsStandard
    /\ Cardinality(CallsOf("refining")) = AgentsStandard
    /\ \A i, j \in Units(AgentsStandard) :
          i # j => Returned("initial", i) # Returned("initial", j)

\* The units whose revised answers group g (0 or 1) of the parallel synthesis
\* is given according to C12.
GroupUnits(g) == IF g = 0 THEN {0, 1, 2} ELSE {3, 4, 5}

\* C12. Parallel synthesis of a DeepThink run: the two group syntheses are
\* dispatched together; the request of group 0 embeds the revised answers of
\* units 0, 1, 2 and that of group 1 those of units 3, 4, 5, in that order (the
\* groups are disjoint and cover the six units); the Final Synthesis request is
\* in the history only when both group syntheses were fulfilled, and it embeds
\* the two texts they returned.
C12_ParallelSynthesis ==
    /\ GroupUnits(0) \cap GroupUnits(1) = {}
    /\ GroupUnits(0) \cup GroupUnits(1) = Units(AgentsDeep)
    /\ (run.isDeepThink /\ Issued("synthesizing")) =>
          /\ \A g \in {0, 1} : Cardinality(CallsOfUnit("synthesizing", g)) = 1
          /\ Cardinality(CallsOf("synthesizing")) = 2
          /\ \A k \in CallsOf("synthesizing") :
                LET g == calls[k].unit IN
                TurnParts(calls[k]) =
                    Append(run.apiParts,
                           TextPart(<<"---INTERNAL CONTEXT---",
                                      "Here are 3 refined responses. Synthesize them">>
                                    \o <<"Refined", "1", ":">> \o Returned("revising", 3 * g)
                                    \o <<"Refined", "2", ":">> \o Returned("revising", 3 * g + 1)
                                    \o <<"Refined", "3", ":">> \o Returned("revising", 3 * g + 2)))
    /\ Issued("finalSynthesizing") =>
          /\ \A k \in CallsOf("synthesizing") : calls[k].status = "ok"
          /\ \A k \in CallsOf("finalSynthesizing") :
                TurnParts(calls[k]) =
                    Append(run.apiParts,
                           TextPart(<<"---INTERNAL CONTEXT---",
                                      "Here are two synthesized responses from different agent groups.",
                                      "---SYNTHESIZED RESPONSE 1---">>
                                    \o Returned("synthesizing", 0)
                                    \o <<"---SYNTHESIZED RESPONSE 2---">>
                                    \o Returned("synthesizing", 1)))

\* The Final Synthesis request of a DeepThink run is in flight, both group
\* syntheses having returned different texts.
C12_Witness ==
    /\ run.isDeepThink
    /\ run.pc = "finalSynthesizing"
    /\ Issued("finalSynthesizing")
    /\ Cardinality(CallsOf("synthesizing")) = 2
    /\ Returned("synthesizing", 0) # Returned("synthesizing", 1)

\* The stage that follows a stage in the topology C13 describes.
SuccessorStage(pc, deep) ==
    CASE pc \in {"idle", "done", "error"} -> "initial"
      [] pc = "initial" -> "refining"
      [] pc = "refining" -> IF deep THEN "critiquing" ELSE "synthesizing"
      [] pc = "critiquing" -> "revising"
      [] pc = "revising" -> "synthesizing"
      [] pc = "synthesizing" -> IF deep THEN "finalSynthesizing" ELSE "validating"
      [] pc = "finalSynthesizing" -> "reviewing"
      [] pc = "reviewing" -> "validating"
      [] OTHER -> "none"

\* C13. Stage sequence: a run starts at Initial with 4 (Standard) or 6
\* (DeepThink) agents; every step that takes it to a stage or to validation
\* takes it to the successor of its stage in Initial, Refine, Synthesize
\* (Standard) or Initial, Refine, Critique, Revise, ParallelSynthesize,
\* FinalSynthesize, Review (DeepThink); when validation starts, requests of
\* exactly those stages have been issued and the candidate final text is the
\* text returned by Synthesize (Standard) or Review (DeepThink).
C13_StageSequence ==
    [][(run'.pc # run.pc /\ run'.pc \in PipelineStages \cup {"validating"}) =>
          LET deep == run'.isDeepThink
              last == IF deep THEN "reviewing" ELSE "synthesizing"
          IN /\ run'.pc = SuccessorStage(run.pc, deep)
             /\ run'.numAgents = (IF deep THEN 6 ELSE 4)
             /\ run'.pc = "initial" => deep = isDeepThink
             /\ run'.pc # "initial" => (deep = run.isDeepThink /\ run'.id = run.id)
             /\ run'.pc = "validating" =>
                   /\ {calls'[k].stage : k \in 1..Len(calls')} =
                          (IF deep THEN PipelineStages
                           ELSE {"initial", "refining", "synthesizing"})
                   /\ \A j, k \in 1..Len(calls') :
                          j <= k => StageRank(calls'[j].stage) <= StageRank(calls'[k].stage)
                   /\ run'.finalSynthesizerResponseText =
                          calls'[CallIndex(calls', last, 0)].text
                   /\ run'.finalResponseText = run'.finalSynthesizerResponseText]_vars

\* A DeepThink run has passed its seven stages and validates the review's text,
\* which differs from the Final Synthesis output.
C13_Witness ==
    /\ run.isDeepThink
    /\ run.pc = "validating"
    /\ Len(calls) = 28
    /\ run.finalSynthesizerResponseText = Returned("reviewing", 0)
    /\ run.finalSynthesizerResponseText # Returned("finalSynthesizing", 0)

\* C14 as stated: in a DeepThink run a request of an elaboration stage is
\* issued before the Refine requests are.
C14_ElaborateStage ==
    (run.isDeepThink /\ Issued("refining")) =>
        \E k \in 1..Len(calls) :
            /\ calls[k].stage \notin PipelineStages \cup {"verifying"}
            /\ \A j \in CallsOf("refining") : k < j

\* C14 amended: no run has an elaboration stage. Every request belongs to one
\* of Initial, Refine, Critique, Revise, Synthesize, FinalSynthesize, Review or
\* the correction; the progress state has a key for each of these and no
\* other; the Refine requests are issued in the step in which the last Initial
\* unit is fulfilled, and they follow the Initial requests in the history with
\* no request in between.
C14_NoElaborateStage ==
    /\ \A k \in 1..Len(calls) : calls[k].stage \in PipelineStages \cup {"verifying"}
    /\ DOMAIN progress = PipelineStages \cup {"verifying"}
    /\ (Issued("initial") /\ \A k \in CallsOf("initial") : calls[k].status = "ok") =>
          Issued("refining")
    /\ Issued("refining") =>
          /\ \A k \in CallsOf("initial") : calls[k].status = "ok"
          /\ \A j \in CallsOf("refining") :
                \A k \in 1..(j - 1) : calls[k].stage \in {"initial", "refining"}

\* The Refine requests of a DeepThink run are in flight, right behind the six
\* fulfilled Initial requests.
C14_Witness ==
    /\ run.isDeepThink
    /\ run.pc = "refining"
    /\ Cardinality(CallsOf("initial")) = AgentsDeep
    /\ Cardinality(CallsOf("refining")) = AgentsDeep
    /\ Len(calls) = 2 * AgentsDeep

\* Whether the candidate text holds a checkable block after the block the
\* correction was requested for that is invalid as well.
InvalidBlockAfter(text, m) ==
    \E p \in m.last..Len(text) :
        /\ RegexExec(text, p).found
        /\ Truthy(checkCodeSyntax(RegexExec(text, p).lang, RegexExec(text, p).code, TRUE))

\* C15. Single-shot repair: a run issues at most one correction request; when
\* the candidate text holds two or more invalid checkable blocks and the run
\* ends after a correction, the final text is the candidate text with the span
\* of the first invalid block replaced by the text the correction returned:
\* the text before the span, the text after it and every later block are the
\* candidate's.
C15_SingleShotRepair ==
    /\ Cardinality(CallsOf("verifying")) <= 1
    /\ (run.pc = "done" /\ run.hasCorrected
            /\ InvalidBlockAfter(run.finalSynthesizerResponseText, run.match)) =>
          LET cand == run.finalSynthesizerResponseText
              m == run.match
          IN run.finalResponseText =
                 SubSeq(cand, 1, m.index - 1) \o Returned("verifying", 0)
                     \o SubSeq(cand, m.last, Len(cand))

\* C16 as stated: the only block the validator is ever given is the first
\* fenced block of the candidate final text.
C16_OnlyFirstBlockValidated ==
    (run.pc \in {"validating", "verifying", "done"} /\ run.match.found) =>
        \A p \in 1..(run.match.index - 1) :
            ~OpensAt(run.finalSynthesizerResponseText, p)

\* C16 amended: the validator is given the fenced blocks of the candidate
\* final text one at a time in document order, each after the block before it
\* yielded no diagnostic and while no correction has been made: the block of a
\* validation step is the first one that opens at or after the end of the
\* block validated before (the start of the text for the first step), it ends
\* at the first fence after its tag, and a correction is requested in that step
\* exactly when the validator's diagnostic is truthy. No block is validated
\* after the one a correction was requested for.
C16_BlocksValidatedInOrder ==
    [][(run'.id = run.id /\ run'.match.found /\ run'.match # run.match) =>
          LET cand == run.finalSynthesizerResponseText
              m == run'.match
              from == IF run.match.found THEN run.match.last ELSE 1
          IN /\ run.pc = "validating"
             /\ ~run.hasCorrected
             /\ run.match.found => ~Truthy(run.syntaxError)
             /\ m.index >= from
             /\ \A p \in from..(m.index - 1) : ~OpensAt(cand, p)
             /\ cand[m.index] = Fence
             /\ m.lang = cand[m.index + 1]
             /\ cand[m.last - 1] = Fence
             /\ m.code = SubSeq(cand, m.index + 2, m.last - 2)
             /\ \A k \in 1..Len(m.code) : m.code[k] # Fence
             /\ m.whole = SubSeq(cand, m.index, m.last - 1)
             /\ run'.lastIndex = m.last
             /\ (Len(calls') = Len(calls) + 1) <=> Truthy(run'.syntaxError)
             /\ Len(calls') > Len(calls) =>
                    (run'.pc = "verifying" /\ calls'[Len(calls')].stage = "verifying")]_vars

\* A correction has been requested for the second block of the candidate final
\* text, after its first block was validated and yielded no diagnostic.
C16_Witness ==
    /\ run.pc = "verifying"
    /\ run.match.found
    /\ RegexExec(run.finalSynthesizerResponseText, 1).index < run.match.index
    /\ ~Truthy(checkCodeSyntax(RegexExec(run.finalSynthesizerResponseText, 1).lang,
                               RegexExec(run.finalSynthesizerResponseText, 1).code, TRUE))

\* The language tags the validator analyses, in lower case.
AnalysedLanguages == {"javascript", "js", "python", "py"}

\* The fenced blocks of a text that the regex of the repair loop matches.
BlocksOf(text) ==
    {RegexExec(text, p) : p \in {q \in 1..Len(text) : OpensAt(text, q)}}

\* C17. Conservative validation: a block whose tag is not an analysed language
\* yields no diagnostic, whatever its body and whether or not the Python
\* interpreter is loaded; the block a correction is requested for always has
\* an analysed tag; a run whose candidate final text holds blocks of other
\* languages only ends with the candidate text as its final text and without
\* a correction request.
C17_ConservativeValidation ==
    /\ \A tag \in WordTags : \A sk \in BOOLEAN :
          \A b \in BlocksOf(run.finalSynthesizerResponseText) :
              ToLowerCase(tag) \notin AnalysedLanguages =>
                  /\ checkCodeSyntax(tag, b.code, sk) = NoDiagnostic
                  /\ ~Truthy(checkCodeSyntax(tag, b.code, sk))
    /\ Issued("verifying") => ToLowerCase(run.match.lang) \in AnalysedLanguages
    /\ (run.pc \in {"validating", "verifying", "done"}
            /\ \A b \in BlocksOf(run.finalSynthesizerResponseText) :
                   ToLowerCase(b.lang) \notin AnalysedLanguages) =>
          /\ ~Issued("verifying")
          /\ run.pc # "verifying"
          /\ run.finalResponseText = run.finalSynthesizerResponseText
          /\ (run.pc = "done" /\ messages # << >>) =>
                messages[Len(messages)].parts = <<TextPart(run.finalSynthesizerResponseText)>>

\* A run has ended whose candidate final text holds a block of an unanalysed
\* language with a body that no parser accepts; the block was validated.
C17_Witness ==
    /\ run.pc = "done"
    /\ run.match.found
    /\ run.match.lang = "rust"
    /\ ~Parses(run.match.code)
    /\ run.finalResponseText = run.finalSynthesizerResponseText

\* The text checkCodeSyntax returns for a Python block when window.Sk is not
\* defined.
NotLoadedMessage == <<"Skulpt (Python interpreter) not loaded.">>

\* C18. Validation unavailable passes silently: when the interpreter of a
\* block's language is not loaded, the validator's result for the block is no
\* diagnostic and no correction request is issued for the block.
C18_UnavailablePassesSilently ==
    /\ run.syntaxError.message = NotLoadedMessage => ~Truthy(run.syntaxError)
    /\ \A k \in CallsOf("verifying") :
          calls[k].sys # VerifierInstruction(NotLoadedMessage)

\* C19. Correction failure: the step in which the correction request of a run
\* is rejected appends the apology (and nothing else) to the conversation,
\* ends the run in its error state with loading off, and issues no request;
\* afterwards that run adds no model turn, so the candidate text is never
\* surfaced, and no second correction request is ever in its history.
C19_CorrectionFailureFailsRun ==
    [][(run'.id = run.id /\ \E k \in CallsOf("verifying") : calls'[k].status = "failed") =>
          /\ Cardinality(CallsOf("verifying")) = 1
          /\ Len(calls') = Len(calls)
          /\ run'.pc = "error"
          /\ ~isLoading'
          /\ run'.finalResponseText = run.finalResponseText
          /\ IF \E k \in CallsOf("verifying") : calls[k].status = "pending"
             THEN /\ run.pc = "verifying"
                  /\ messages' =
                         Append(messages,
                                [role |-> "model",
                                 parts |-> <<[kind |-> "text", val |-> ApologyText]>>])
                  /\ \A j \in 1..Len(messages') :
                         messages'[j].parts # <<TextPart(run.finalSynthesizerResponseText)>>
             ELSE ModelTurns(messages') <= ModelTurns(messages)]_vars

\* The correction request of a run was rejected: the run is over and the last
\* turn of the conversation is the apology.
C19_Witness ==
    /\ run.pc = "error"
    /\ \E k \in CallsOf("verifying") : calls[k].status = "failed"
    /\ run.match.found
    /\ messages # << >>
    /\ messages[Len(messages)].parts = <<TextPart(ApologyText)>>

\* Whether the current turn of request c starts with the parts of the user's
\* turn of the run.
CarriesSharedParts(c) ==
    /\ Len(TurnParts(c)) >= Len(run.apiParts)
    /\ SubSeq(TurnParts(c), 1, Len(run.apiParts)) = run.apiParts

\* C20 as stated: the current turn of every request of every stage, the
\* review and the correction included, starts with the shared parts.
C20_EveryRequestCarriesSharedParts ==
    \A k \in 1..Len(calls) : CarriesSharedParts(calls[k])

\* The stages whose prompts are built on the parts of the user's turn.
AttachmentStages ==
    {"initial", "refining", "critiquing", "revising", "synthesizing", "finalSynthesizing"}

\* C20 amended: the current turn of every request of Initial, Refine,
\* Critique, Revise, Synthesis (group or single) and Final Synthesis is the
\* parts of the user's turn, unchanged and in order, followed (but for Initial)
\* by one text part; the current turn of the Review request and of the
\* correction request is a single text part (the review context, the code to
\* correct), with no attachment part.
C20_SharedPartsButReviewAndRepair ==
    /\ Issued("initial") =>
          /\ run.apiParts # << >>
          /\ \A j \in 1..Len(run.apiParts) :
                run.apiParts[j].kind = "inlineData" => j = 1
    /\ \A k \in 1..Len(calls) :
          LET parts == TurnParts(calls[k]) IN
          IF calls[k].stage \in AttachmentStages
          THEN /\ CarriesSharedParts(calls[k])
               /\ Len(parts) = Len(run.apiParts) + (IF calls[k].stage = "initial" THEN 0 ELSE 1)
               /\ calls[k].stage # "initial" => parts[Len(parts)].kind = "text"
          ELSE /\ calls[k].stage \in {"reviewing", "verifying"}
               /\ Len(parts) = 1
               /\ parts[1].kind = "text"
               /\ parts[1].val =
                      (IF calls[k].stage = "reviewing"
                       THEN ReviewContext(run.userInput, Returned("finalSynthesizing", 0))
                       ELSE VerifierContext(run.match.lang, run.match.code))

\* The review request of a DeepThink run whose user turn holds an attachment
\* and a text has been issued, and so has a correction request.
C20_Witness ==
    /\ run.isDeepThink
    /\ Issued("reviewing")
    /\ Issued("verifying")
    /\ Len(run.apiParts) = 2
    /\ run.apiParts[1].kind = "inlineData"

\* C25. Oversized attachment: a step in which the file input delivers a file
\* larger than the cap leaves the pending attachment, the conversation and the
\* progress state as they were, starts no run and issues no request; such a
\* file is never the pending attachment's origin (the attachment is unchanged
\* whether or not one was pending).
C25_OversizedAttachmentRejected ==
    [][(lastPick' # lastPick /\ lastPick' > SizeLimit) =>
          /\ attachedFile' = attachedFile
          /\ messages' = messages
          /\ progress' = progress
          /\ isLoading' = isLoading
          /\ run' = run
          /\ calls' = calls
          /\ inflight' = inflight
          /\ runCount' = runCount]_vars

\* An oversized file was picked while an attachment was pending and the
\* attachment is still there; no run has started.
C25_Witness ==
    /\ lastPick > SizeLimit
    /\ attachedFile.present
    /\ runCount = 0
    /\ calls = << >>

\* Every flag of every stage of the topology of the latest run is true.
StageFlagsAllTrue ==
    /\ \A stage \in FanOutStages : \A k \in 1..Len(progress[stage]) : progress[stage][k]
    /\ Len(progress.initial) = run.numAgents
    /\ Len(progress.refining) = run.numAgents
    /\ run.isDeepThink =>
          /\ Len(progress.critiquing) = run.numAgents
          /\ Len(progress.revising) = run.numAgents
          /\ Len(progress.synthesizing) = 2
          /\ progress.finalSynthesizing
          /\ progress.reviewing
    /\ ~run.isDeepThink => progress.synthesizing = <<TRUE>>

\* C29 as stated. When a run has ended with its final answer, every progress
\* flag of its topology is true, the verification flag included, whether or
\* not a correction was made.
C29_CompletenessOfProgress ==
    run.pc = "done" => (StageFlagsAllTrue /\ progress.verifying)

\* C29, amended. When a run has ended with its final answer, every stage flag
\* of its topology is true, and the verification flag is true exactly when a
\* correction was made.
C29_StageFlagsCompleteVerifyingOnCorrection ==
    run.pc = "done" => (StageFlagsAllTrue /\ (progress.verifying <=> run.hasCorrected))

\* A DeepThink run ended with its final answer after validating a block that
\* needed no correction.
C29_Witness ==
    /\ run.pc = "done"
    /\ run.isDeepThink
    /\ run.match.found
    /\ ~run.hasCorrected
    /\ ~progress.verifying

\* C23. Validator is static: for a block of an analysed language whose
\* interpreter is available, the validator's result is a diagnostic exactly
\* when the block's code does not parse; code that parses but raises when run
\* yields no diagnostic, and no correction is requested for it.
C23_ValidatorIsStatic ==
    (/\ run.match.found
     /\ ToLowerCase(run.match.lang) \in AnalysedLanguages
     /\ run.syntaxError.message # NotLoadedMessage) =>
        /\ Truthy(run.syntaxError) <=> ~Parses(run.match.code)
        /\ run.pc = "verifying" => ~Parses(run.match.code)

\* C24 as stated. Checkable implies runnable: every tag for which the
\* validator can return a diagnostic is a member of the renderer's allow-list,
\* and the block a correction is requested for has a tag of the allow-list.
C24_CheckableImpliesRunnable ==
    /\ \A tag \in WordTags : \A sk \in BOOLEAN :
          \A b \in BlocksOf(run.finalSynthesizerResponseText) :
              checkCodeSyntax(tag, b.code, sk) # NoDiagnostic => tag \in runnableLanguages
    /\ Issued("verifying") => run.match.lang \in runnableLanguages

\* C24, amended. Every tag for which the validator can return a diagnostic
\* is, in lower case, a member of the renderer's allow-list, and the block a
\* correction is requested for has a tag whose lower-case form is in the
\* allow-list.
C24_CheckableImpliesRunnableInLowerCase ==
    /\ \A tag \in WordTags : \A sk \in BOOLEAN :
          \A b \in BlocksOf(run.finalSynthesizerResponseText) :
              checkCodeSyntax(tag, b.code, sk) # NoDiagnostic =>
                  ToLowerCase(tag) \in runnableLanguages
    /\ Issued("verifying") => ToLowerCase(run.match.lang) \in runnableLanguages

\* A correction is being requested for a block tagged in upper case.
C24_Witness ==
    /\ run.pc = "verifying"
    /\ run.match.lang = "JS"
    /\ Truthy(run.syntaxError)
    /\ Issued("verifying")

\* C27. Conversation alternation: the conversation alternates user and model
\* turns and starts with a user turn, so that every model turn directly
\* follows the user turn it answers.
C27_ConversationAlternates ==
    \A k \in 1..Len(messages) :
        messages[k].role = (IF k % 2 = 1 THEN "user" ELSE "model")

\* The turns a request carries before its own turn.
PriorTurns(c) == SubSeq(c.contents, 1, Len(c.contents) - 1)

\* C21. History snapshot: the requests a submission issues carry as prior
\* turns the conversation as it was when the user submitted (without the new
\* user turn), and every later request of the run carries the same prior
\* turns, whatever happens to the conversation in the meantime.
C21_HistorySnapshot ==
    [][/\ runCount' # runCount =>
              \A k \in 1..Len(calls') : PriorTurns(calls'[k]) = messages
       /\ (runCount' = runCount /\ calls # << >>) =>
              \A k \in 1..Len(calls') : PriorTurns(calls'[k]) = PriorTurns(calls[1])]_vars

\* Whether the request of unit i of a stage of the latest run has the status.
UnitHasStatus(stage, i, status) ==
    \E k \in CallsOfUnit(stage, i) : calls[k].status = status

\* C26. Run isolation of the progress state: a flag that becomes true during
\* a run does so for a unit of that run that has completed; no flag of the
\* run is flipped by a unit of an earlier run.
C26_RunIsolationOfProgress ==
    [][run'.id = run.id =>
          \A stage \in FanOutStages :
              \A k \in 1..Len(progress'[stage]) :
                  (k <= Len(progress[stage]) /\ ~progress[stage][k] /\ progress'[stage][k]) =>
                      /\ UnitHasStatus(stage, k - 1, "pending")
                      /\ \E c \in CallsOfUnit(stage, k - 1) : calls'[c].status = "ok"]_vars

\* C22. Unit-done signalling: a flag of a fan-out stage is true only when the
\* request of its unit has fulfilled and the unit's output slot holds the text
\* the request returned; the flag of a unit whose request was rejected is
\* false.
C22_UnitDoneSignalling ==
    \A stage \in FanOutStages :
        \A k \in 1..Len(progress[stage]) :
            /\ progress[stage][k] =>
                  /\ UnitHasStatus(stage, k - 1, "ok")
                  /\ (stage \in ArrayStages /\ k <= Len(OutputSet(stage))) =>
                        \A c \in CallsOfUnit(stage, k - 1) :
                            OutputSet(stage)[k] = calls[c].text
            /\ UnitHasStatus(stage, k - 1, "failed") => ~progress[stage][k]

\* C28. At most one run in flight: loading is on exactly while the latest run
\* has not reached Done or Error, and no step taken meanwhile starts a run,
\* replaces the locals of the run or clears a flag of the progress state.
C28_AtMostOneRunInFlight ==
    [][/\ Running <=> isLoading
       /\ Running =>
             /\ runCount' = runCount
             /\ run'.id = run.id
             /\ NoFlagCleared(progress, progress')]_vars

\* A run is in flight while the input field holds a text the user could
\* submit and another submission is still to come.
C28_Witness ==
    /\ Running
    /\ isLoading
    /\ Trim(inputText) # << >>
    /\ runBudget > 0
    /\ \E stage \in FanOutStages : \E k \in 1..Len(progress[stage]) : progress[stage][k]

\* C30. Termination: a run that is in flight eventually reaches Done or Error
\* with the loading flag cleared and a model turn appended by its last step;
\* whenever the latest run is at Done or Error the loading flag is false.
C30_Termination ==
    /\ Running ~> (run.pc \in {"done", "error"} /\ ~isLoading)
    /\ [](run.pc \in {"done", "error"} => ~isLoading)
    /\ [][(Running /\ ~Running') =>
             /\ Len(messages') = Len(messages) + 1
             /\ messages'[Len(messages')].role = "model"
             /\ ~isLoading']_vars

\* A run has ended after its repair loop went over a valid block and on to
\* the end of the text.
C30_Witness ==
    /\ run.pc = "done"
    /\ ~isLoading
    /\ run.match.found
    /\ ~run.hasCorrected
    /\ run.lastIndex > 1

====
